---- MODULE Spec2Model ----
(***************************************************************************)
(* The JSON file store of app/db.py: one primary file per collection, a    *)
(* rolling backup (.bak), timestamped backups, a temp file for the atomic  *)
(* replace, a lock per file and a registry lock that guards lock creation. *)
(* Every step of read_json_file, write_json_file, restore_from_backup and  *)
(* ensure_file_exists is one action of the thread that runs it.            *)
(***************************************************************************)
EXTENDS Integers, Sequences, FiniteSets, TLC

\* ---------------------------------------------------------------- bounds
\* I/O failures and process crashes the environment brings about in one run
MaxFaults == 1

\* the threads of the process and the collections (file names) they use
Threads == {"t1", "t2"}
Names == {"A", "B"}
\* the sequential runs: one thread calls the store, on one collection
SeqThreads == {"t1"}
SeqNames == {"A"}
Records == {"a", "b"}
\* two consecutive wall-clock seconds: writes fall in the same second or not
Seconds == {0, 1}
NoThread == "none"

\* ------------------------------------------------------------ file system
\* A file: ex = the path exists, rd = open(path, 'r') succeeds (FALSE: an
\* OSError such as PermissionError), txt = its content as a token sequence.
\* Tokens: "[" "]" "," "{" "}" a record, "ws" (whitespace the dump does not
\* emit), "xff" (a byte that is not valid UTF-8).
Absent == [ex |-> FALSE, rd |-> TRUE, txt |-> <<>>]
Text(s) == [ex |-> TRUE, rd |-> TRUE, txt |-> s]
Unreadable == [ex |-> TRUE, rd |-> FALSE, txt |-> <<>>]

\* Python values the store handles: a list of records, a dict, True, False, None
ListVal(s) == [kind |-> "list", val |-> s]
DictVal == [kind |-> "dict", val |-> <<>>]
NoneVal == [kind |-> "None", val |-> <<>>]
TrueVal == [kind |-> "True", val |-> <<>>]
FalseVal == [kind |-> "False", val |-> <<>>]
BoolVal(b) == IF b THEN TrueVal ELSE FalseVal

\* the lists callers pass (empty, the same two records in both orders), and
\* the arguments of write_json_file: a list, or a single mapping passed by
\* mistake
Lists == {ListVal(s) : s \in {<<>>, <<"a", "b">>, <<"b", "a">>}}
WriteArgs == Lists \cup {DictVal}

\* (a dump that writes the elements last to first)
RECURSIVE JoinReversed(_)
JoinReversed(s) ==
  IF s = <<>> THEN <<>>
  ELSE IF Len(s) = 1 THEN <<s[1]>>
  ELSE JoinReversed(Tail(s)) \o <<",", s[1]>>

\* json.dump(data, f, ensure_ascii=False, indent=2): the elements in order,
\* separated by commas, between brackets
RECURSIVE Join(_)
Join(s) ==
  IF s = <<>> THEN <<>>
  ELSE IF Len(s) = 1 THEN <<s[1]>>
  ELSE <<s[1], ",">> \o Join(Tail(s))

Dumps(v) == IF v.kind = "dict" THEN <<"{", "}">> ELSE <<"[">> \o Join(v.val) \o <<"]">>

\* json.loads: whitespace is skipped; an array of records or an object parses
IsWs(x) == x = "ws"
Strip(s) == SelectSeq(s, LAMBDA x : ~IsWs(x))

RECURSIVE IsItems(_)
IsItems(s) ==
  /\ Len(s) >= 1
  /\ s[1] \in Records
  /\ \/ Len(s) = 1
     \/ Len(s) >= 3 /\ s[2] = "," /\ IsItems(SubSeq(s, 3, Len(s)))

Items(s) == [i \in 1..((Len(s) + 1) \div 2) |-> s[2 * i - 1]]

Loads(txt) ==
  LET s == Strip(txt)
      inner == SubSeq(s, 2, Len(s) - 1)
  IN  IF s = <<"{", "}">> THEN [err |-> "none", v |-> DictVal]
      ELSE IF Len(s) >= 2 /\ s[1] = "[" /\ s[Len(s)] = "]" /\ (Len(s) = 2 \/ IsItems(inner))
           THEN [err |-> "none", v |-> ListVal(IF Len(s) = 2 THEN <<>> ELSE Items(inner))]
           ELSE [err |-> "JSONDecodeError", v |-> NoneVal]

\* with open(path, 'r', encoding='utf-8') as f: json.load(f)
Load(file) ==
  IF ~file.rd THEN [err |-> "IOError", v |-> NoneVal]
  ELSE IF \E i \in 1..Len(file.txt) : file.txt[i] = "xff"
       THEN [err |-> "UnicodeDecodeError", v |-> NoneVal]
       ELSE Loads(file.txt)

ProperPrefixes(s) == {SubSeq(s, 1, k) : k \in 0..(Len(s) - 1)}

\* A path that exists and cannot be opened (rd = FALSE) cannot be opened for
\* writing either.
Blocked(f) == f.ex /\ ~f.rd

\* with open(path, 'w') as f: json.dump(...) on a path holding `old`.
\* ok: the whole text is written. fault = FALSE, ok = FALSE: the path cannot
\* be opened. fault = TRUE: an I/O failure of the environment; the open fails
\* and nothing changes, or the disk fills and a truncated text is left.
WriteOutcomes(old, txt) ==
  IF Blocked(old) THEN {[ok |-> FALSE, fault |-> FALSE, file |-> old]}
  ELSE {[ok |-> TRUE, fault |-> FALSE, file |-> Text(txt)]}
       \cup {[ok |-> FALSE, fault |-> TRUE, file |-> old]}
       \cup {[ok |-> FALSE, fault |-> TRUE, file |-> Text(p)] : p \in ProperPrefixes(txt)}

\* shutil.copy2(src, dst): content and mode of src, with the same outcomes
CopyOutcomes(src, dst) ==
  IF Blocked(src) \/ Blocked(dst) THEN {[ok |-> FALSE, fault |-> FALSE, file |-> dst]}
  ELSE {[ok |-> TRUE, fault |-> FALSE, file |-> Text(src.txt)]}
       \cup {[ok |-> FALSE, fault |-> TRUE, file |-> dst]}
       \cup {[ok |-> FALSE, fault |-> TRUE, file |-> Text(p)] : p \in ProperPrefixes(src.txt)}

\* ------------------------------------------------------------------ state
VARIABLES
  primary,     \* DATA_DIR / filename
  bak,         \* DATA_DIR / filename.bak
  tmp,         \* DATA_DIR / filename.tmp
  tsb,         \* BACKUPS_DIR / filename.<second>.bak, per second
  clock,       \* datetime.now(), in seconds
  file_locks,  \* _file_locks: name -> lock (0: no entry)
  locks_lock,  \* holder of _locks_lock
  owner,       \* holder of each threading.Lock the registry created
  pc,          \* position of each thread
  call,        \* the call a thread runs: op, filename, data argument
  lock,        \* the local `lock` of a thread
  data,        \* the local `data` loaded from a file
  res,         \* what the call returns or raises
  pre,         \* files of the collection when the call took its lock
  io,          \* what the I/O of the call met: copies done, a failure hit
  faults,      \* I/O failures and crashes so far
  last,        \* per collection, the last completed call if a successful write
  crashed,     \* per collection, the write a process crash interrupted
  hist,        \* per collection, how a temp file was left and, in the runs
               \* that record it, the primary before the most recent
               \* successful write over an existing primary (rec), or how
               \* far a sequence write, write, restore has come (seq)
  job          \* per thread, the crud call it is in (create_student,
               \* create_enrollment, delete_enrollment): its stage, the list
               \* it read, the record it is adding, the id it is deleting and
               \* what its is_student_enrolled test found

vars == <<primary, bak, tmp, tsb, clock, file_locks, locks_lock, owner,
          pc, call, lock, data, res, pre, io, faults, last, crashed, hist,
          job>>

files == <<primary, bak, tmp, tsb>>
locks == <<file_locks, locks_lock, owner>>

LockIds == 1..Cardinality(Names)

NoCall == [op |-> "none", fname |-> "none", data |-> NoneVal]
NoRes == [ret |-> NoneVal, exc |-> "none"]
NoPre == [primary |-> Absent, bak |-> Absent, tmp |-> Absent, tsb |-> [s \in Seconds |-> Absent]]
NoIo == [bak |-> FALSE, ts |-> FALSE, hit |-> FALSE, wr |-> FALSE, unl |-> FALSE]
NoLast == [op |-> "none", data |-> NoneVal]
NoJob == [st |-> "none", students |-> NoneVal, new |-> "none",
          del |-> "none", seen |-> FALSE]
NoCrash == [at |-> "none", old |-> Absent, new |-> <<>>]
NoHist == [rec |-> FALSE, old |-> Absent, left |-> "none",
           seq |-> FALSE, st |-> "none", r1 |-> NoneVal, bk |-> FALSE]

Snapshot(c) == [primary |-> primary[c], bak |-> bak[c], tmp |-> tmp[c], tsb |-> tsb[c]]

\* contents the environment can leave in a file before the process starts:
\* none, an object, an array with other whitespace than the dump's, a
\* truncated text, bytes that are not UTF-8, a path that cannot be opened
InitFiles ==
  { Absent,
    Text(<<"{", "}">>),
    Text(<<"[", "ws", "a", "]">>),
    Text(<<"[">>),
    Text(<<"xff">>),
    Unreadable }

\* the state after the module is imported: no lock in the registry, every
\* thread outside the store
Fresh ==
  /\ tsb = [c \in Names |-> [s \in Seconds |-> Absent]]
  /\ clock = 0
  /\ file_locks = [c \in Names |-> 0]
  /\ locks_lock = NoThread
  /\ owner = [l \in LockIds |-> NoThread]
  /\ pc = [t \in Threads |-> "idle"]
  /\ call = [t \in Threads |-> NoCall]
  /\ lock = [t \in Threads |-> 0]
  /\ data = [t \in Threads |-> NoneVal]
  /\ res = [t \in Threads |-> NoRes]
  /\ pre = [t \in Threads |-> NoPre]
  /\ io = [t \in Threads |-> NoIo]
  /\ job = [t \in Threads |-> NoJob]
  /\ last = [c \in Names |-> NoLast]
  /\ crashed = [c \in Names |-> NoCrash]

Start ==
  /\ \E p \in [SeqNames -> InitFiles] :
       primary = [c \in Names |-> IF c \in SeqNames THEN p[c] ELSE Absent]
  /\ \E b \in [SeqNames -> InitFiles] :
       bak = [c \in Names |-> IF c \in SeqNames THEN b[c] ELSE Absent]
  /\ tmp = [c \in Names |-> Absent]
  /\ faults = 0
  /\ Fresh

Init == Start /\ hist = [c \in Names |-> NoHist]

\* the same, in runs that record the pre-image of the successful writes
InitPre == Start /\ hist = [c \in Names |-> [NoHist EXCEPT !.rec = TRUE]]

\* runs from an empty data directory that record the sequence of the calls
InitUndo ==
  /\ primary = [c \in Names |-> Absent]
  /\ bak = [c \in Names |-> Absent]
  /\ tmp = [c \in Names |-> Absent]
  /\ faults = 0
  /\ hist = [c \in Names |-> [NoHist EXCEPT !.seq = TRUE]]
  /\ Fresh

\* ------------------------------------------------------------ the callers
Name(t) == call[t].fname
Finish(t, r, e) == res' = [res EXCEPT ![t] = [ret |-> r, exc |-> e]]
Goto(t, p) == pc' = [pc EXCEPT ![t] = p]

\* the file a successful write_json_file call leaves
NewFile(t) == Text(Dumps(call[t].data))

\* an I/O failure happens only while the environment's budget lasts
Allowed(t, f) == ~f \/ faults < MaxFaults
Count(t, f) == IF f THEN faults + 1 ELSE faults

CallRead(t, c) ==
  /\ pc[t] = "idle"
  /\ call' = [call EXCEPT ![t] = [op |-> "read", fname |-> c, data |-> NoneVal]]
  /\ Goto(t, "getlock")
  /\ UNCHANGED <<files, clock, locks, lock, data, res, pre, io, faults, last, crashed, hist, job>>

CallWrite(t, c, d) ==
  /\ pc[t] = "idle"
  /\ call' = [call EXCEPT ![t] = [op |-> "write", fname |-> c, data |-> d]]
  /\ Goto(t, "getlock")
  /\ UNCHANGED <<files, clock, locks, lock, data, res, pre, io, faults, last, crashed, hist, job>>

CallRestore(t, c) ==
  /\ pc[t] = "idle"
  /\ call' = [call EXCEPT ![t] = [op |-> "restore", fname |-> c, data |-> NoneVal]]
  /\ Goto(t, "getlock")
  /\ UNCHANGED <<files, clock, locks, lock, data, res, pre, io, faults, last, crashed, hist, job>>

CallEnsure(t, c) ==
  /\ pc[t] = "idle"
  /\ call' = [call EXCEPT ![t] = [op |-> "ensure", fname |-> c, data |-> NoneVal]]
  /\ Goto(t, "ensure")
  /\ UNCHANGED <<files, clock, locks, lock, data, res, pre, io, faults, last, crashed, hist, job>>

\* (an ensure_file_exists without the existence test)
EnsureCheckAlways(t) ==
  /\ pc[t] = "ensure"
  /\ Goto(t, "getlock")
  /\ call' = [call EXCEPT ![t].data = ListVal(<<>>)]
  /\ UNCHANGED <<files, clock, locks, lock, data, res, pre, io, faults, last, crashed, hist, job>>

\* ensure_file_exists: the existence test runs outside the lock; it calls
\* write_json_file(filename, []) when the primary is absent
EnsureCheck(t) ==
  /\ pc[t] = "ensure"
  /\ IF primary[Name(t)].ex
     THEN /\ Goto(t, "idle")
          /\ call' = [call EXCEPT ![t] = NoCall]
          /\ last' = [last EXCEPT ![Name(t)] = NoLast]
     ELSE /\ Goto(t, "getlock")
          /\ call' = [call EXCEPT ![t].data = ListVal(<<>>)]
          /\ last' = last
  /\ UNCHANGED <<files, clock, locks, lock, data, res, pre, io, faults, crashed, hist, job>>

\* ------------------------------------------------------------- _get_lock
GetLockEnter(t) ==
  /\ pc[t] = "getlock"
  /\ locks_lock = NoThread
  /\ locks_lock' = t
  /\ Goto(t, "getlock_in")
  /\ UNCHANGED <<files, clock, file_locks, owner, call, lock, data, res, pre, io, faults, last, crashed, hist, job>>

NewLock == CHOOSE l \in LockIds : \A c \in Names : file_locks[c] # l

\* (a _get_lock that returns with the registry lock still held)
GetLockBodyHold(t) ==
  /\ pc[t] = "getlock_in"
  /\ file_locks' = IF file_locks[Name(t)] = 0
                   THEN [file_locks EXCEPT ![Name(t)] = NewLock]
                   ELSE file_locks
  /\ lock' = [lock EXCEPT ![t] = file_locks'[Name(t)]]
  /\ locks_lock' = locks_lock
  /\ Goto(t, "acquire")
  /\ UNCHANGED <<files, clock, owner, call, data, res, pre, io, faults, last, crashed, hist, job>>

\* (a registry that stores a new Lock() on every call)
GetLockBodyNew(t) ==
  /\ pc[t] = "getlock_in"
  /\ file_locks' = [file_locks EXCEPT ![Name(t)] = CHOOSE l \in LockIds : l # @]
  /\ lock' = [lock EXCEPT ![t] = file_locks'[Name(t)]]
  /\ locks_lock' = NoThread
  /\ Goto(t, "acquire")
  /\ UNCHANGED <<files, clock, owner, call, data, res, pre, io, faults, last, crashed, hist, job>>

\* (a registry with one lock for all files)
GetLockBodyShared(t) ==
  /\ pc[t] = "getlock_in"
  /\ file_locks' = [file_locks EXCEPT ![Name(t)] = 1]
  /\ lock' = [lock EXCEPT ![t] = 1]
  /\ locks_lock' = NoThread
  /\ Goto(t, "acquire")
  /\ UNCHANGED <<files, clock, owner, call, data, res, pre, io, faults, last, crashed, hist, job>>

GetLockBody(t) ==
  /\ pc[t] = "getlock_in"
  /\ file_locks' = IF file_locks[Name(t)] = 0
                   THEN [file_locks EXCEPT ![Name(t)] = NewLock]
                   ELSE file_locks
  /\ lock' = [lock EXCEPT ![t] = file_locks'[Name(t)]]
  /\ locks_lock' = NoThread
  /\ Goto(t, "acquire")
  /\ UNCHANGED <<files, clock, owner, call, data, res, pre, io, faults, last, crashed, hist, job>>

Body(o) == CASE o = "read" -> "r_load"
             [] o = "restore" -> "s_check"
             [] OTHER -> "w_validate"

\* (a lock that is granted while another thread holds it)
AcquireHeld(t) ==
  /\ pc[t] = "acquire"
  /\ owner' = [owner EXCEPT ![lock[t]] = t]
  /\ pre' = [pre EXCEPT ![t] = Snapshot(Name(t))]
  /\ crashed' = [crashed EXCEPT ![Name(t)] = NoCrash]
  /\ Goto(t, Body(call[t].op))
  /\ UNCHANGED <<files, clock, file_locks, locks_lock, call, lock, data, res, io, faults, last, hist, job>>

\* with lock: (entry)
Acquire(t) ==
  /\ pc[t] = "acquire"
  /\ owner[lock[t]] = NoThread
  /\ owner' = [owner EXCEPT ![lock[t]] = t]
  /\ pre' = [pre EXCEPT ![t] = Snapshot(Name(t))]
  /\ crashed' = [crashed EXCEPT ![Name(t)] = NoCrash]
  /\ Goto(t, Body(call[t].op))
  /\ UNCHANGED <<files, clock, file_locks, locks_lock, call, lock, data, res, io, faults, last, hist, job>>

\* what the return of a call leaves in the history of its collection: "ww"
\* after two successful writes in a row (r1: what the first wrote, bk: the
\* second made its copy to .bak), "wwr" after a restore that follows them
\* and returns True
Returned(t) ==
  LET h == hist[Name(t)]
      none == [h EXCEPT !.st = "none", !.r1 = NoneVal, !.bk = FALSE]
  IN  IF ~h.seq THEN h
      ELSE IF call[t].op \in {"write", "ensure"}
      THEN IF res[t].exc = "none" /\ last[Name(t)].op = "write"
           THEN [h EXCEPT !.st = "ww", !.r1 = last[Name(t)].data, !.bk = io[t].bak]
           ELSE none
      ELSE IF call[t].op = "restore" /\ h.st = "ww" /\ res[t].ret = TrueVal
      THEN [h EXCEPT !.st = "wwr"]
      ELSE none

\* the enrollment records of the runs all join the same student to the same
\* class; they differ in their id
PairOf(r) == "s1c1"

\* is_student_enrolled: any enrollment of the pair in the list just read
IsEnrolled(v, pair) ==
  v.kind = "list" /\ \E i \in 1..Len(v.val) : PairOf(v.val[i]) = pair

\* a crud call goes on when its db call returns. create_student: the list
\* read is bound to students, the write's return ends the call.
\* create_enrollment: the list read is bound to all_enrollments, the second
\* read is is_student_enrolled's and a hit raises ValueError, the write's
\* return ends the call. delete_enrollment: the list read is bound to
\* all_enrollments, the write's return ends the call. An exception of a db
\* call propagates out of the crud call.
Resumed(t) ==
  CASE job[t].st = "read" ->
         IF res[t].exc = "none"
         THEN [job[t] EXCEPT !.st = "got", !.students = res[t].ret]
         ELSE [job[t] EXCEPT !.st = "raised"]
    [] job[t].st = "write" ->
         [job[t] EXCEPT !.st = IF res[t].exc = "none" THEN "done" ELSE "raised"]
    [] job[t].st \in {"e_read", "d_read"} ->
         IF res[t].exc = "none"
         THEN [job[t] EXCEPT !.st = IF @ = "e_read" THEN "e_got" ELSE "d_got",
                             !.students = res[t].ret]
         ELSE NoJob
    [] job[t].st = "e_check" ->
         IF res[t].exc = "none" /\ ~IsEnrolled(res[t].ret, PairOf(job[t].new))
         THEN [job[t] EXCEPT !.st = "e_ok"]
         ELSE NoJob
    [] job[t].st = "e_write" ->
         IF res[t].exc = "none"
         THEN [job[t] EXCEPT !.st = "none", !.students = NoneVal]
         ELSE NoJob
    [] job[t].st = "d_write" ->
         [job[t] EXCEPT !.st = "none", !.students = NoneVal, !.del = "none"]
    [] OTHER -> job[t]

\* (a call that returns without releasing its lock)
ExitKeep(t) ==
  /\ pc[t] = "exit"
  /\ owner' = owner
  /\ last' = [last EXCEPT ![Name(t)] =
                IF call[t].op \in {"write", "ensure"} /\ res[t].exc = "none"
                THEN [op |-> "write", data |-> call[t].data]
                ELSE NoLast]
  /\ Goto(t, "idle")
  /\ call' = [call EXCEPT ![t] = NoCall]
  /\ lock' = [lock EXCEPT ![t] = 0]
  /\ data' = [data EXCEPT ![t] = NoneVal]
  /\ res' = [res EXCEPT ![t] = NoRes]
  /\ pre' = [pre EXCEPT ![t] = NoPre]
  /\ io' = [io EXCEPT ![t] = NoIo]
  /\ hist' = [hist EXCEPT ![Name(t)] = Returned(t)]
  /\ job' = [job EXCEPT ![t] = Resumed(t)]
  /\ UNCHANGED <<files, clock, file_locks, locks_lock, faults, crashed>>

\* with lock: (exit, by return or by exception), and the call returns
Exit(t) ==
  /\ pc[t] = "exit"
  /\ owner' = [owner EXCEPT ![lock[t]] = NoThread]
  /\ last' = [last EXCEPT ![Name(t)] =
                IF call[t].op \in {"write", "ensure"} /\ res[t].exc = "none"
                THEN [op |-> "write", data |-> call[t].data]
                ELSE NoLast]
  /\ Goto(t, "idle")
  /\ call' = [call EXCEPT ![t] = NoCall]
  /\ lock' = [lock EXCEPT ![t] = 0]
  /\ data' = [data EXCEPT ![t] = NoneVal]
  /\ res' = [res EXCEPT ![t] = NoRes]
  /\ pre' = [pre EXCEPT ![t] = NoPre]
  /\ io' = [io EXCEPT ![t] = NoIo]
  /\ hist' = [hist EXCEPT ![Name(t)] = Returned(t)]
  /\ job' = [job EXCEPT ![t] = Resumed(t)]
  /\ UNCHANGED <<files, clock, file_locks, locks_lock, faults, crashed>>

\* --------------------------------------------------------- read_json_file
\* the except clause of the primary's try: (json.JSONDecodeError, IOError)
ReadCaught == {"JSONDecodeError", "IOError"}

\* (a reader that goes to the backup when the primary is absent)
ReadPrimaryAbsent(t) ==
  /\ pc[t] = "r_load"
  /\ LET f == primary[Name(t)]
         l == Load(f)
     IN  IF ~f.ex
         THEN res' = res /\ Goto(t, "r_bak")
         ELSE IF l.err = "none"
         THEN /\ Finish(t, IF l.v.kind = "list" THEN l.v ELSE ListVal(<<>>), "none")
              /\ Goto(t, "exit")
         ELSE IF l.err \in ReadCaught
         THEN res' = res /\ Goto(t, "r_bak")
         ELSE Finish(t, NoneVal, l.err) /\ Goto(t, "exit")
  /\ UNCHANGED <<files, clock, locks, call, lock, data, pre, io, faults, last, crashed, hist, job>>

ReadPrimary(t) ==
  /\ pc[t] = "r_load"
  /\ LET f == primary[Name(t)]
         l == Load(f)
     IN  IF ~f.ex
         THEN Finish(t, ListVal(<<>>), "none") /\ Goto(t, "exit")
         ELSE IF l.err = "none"
         THEN /\ Finish(t, IF l.v.kind = "list" THEN l.v ELSE ListVal(<<>>), "none")
              /\ Goto(t, "exit")
         ELSE IF l.err \in ReadCaught
         THEN res' = res /\ Goto(t, "r_bak")
         ELSE Finish(t, NoneVal, l.err) /\ Goto(t, "exit")
  /\ UNCHANGED <<files, clock, locks, call, lock, data, pre, io, faults, last, crashed, hist, job>>

\* (a reader that lets the backup's error reach the caller)
ReadBackupRaise(t) ==
  /\ pc[t] = "r_bak"
  /\ LET f == bak[Name(t)]
         l == Load(f)
     IN  IF f.ex /\ l.err = "none"
         THEN /\ data' = [data EXCEPT ![t] = l.v]
              /\ res' = res
              /\ Goto(t, "r_heal")
         ELSE /\ data' = data
              /\ Finish(t, NoneVal, IF f.ex THEN l.err ELSE "IOError")
              /\ Goto(t, "exit")
  /\ UNCHANGED <<files, clock, locks, call, lock, pre, io, faults, last, crashed, hist, job>>

ReadBackup(t) ==
  /\ pc[t] = "r_bak"
  /\ LET f == bak[Name(t)]
         l == Load(f)
     IN  IF f.ex /\ l.err = "none"
         THEN /\ data' = [data EXCEPT ![t] = l.v]
              /\ res' = res
              /\ Goto(t, "r_heal")
         ELSE /\ data' = data
              /\ Finish(t, ListVal(<<>>), "none")
              /\ Goto(t, "exit")
  /\ UNCHANGED <<files, clock, locks, call, lock, pre, io, faults, last, crashed, hist, job>>

\* (a self-heal that keeps the corrupt primary as the new .bak)
ReadHealSwap(t) ==
  /\ pc[t] = "r_heal"
  /\ \E out \in WriteOutcomes(primary[Name(t)], Dumps(data[t])) :
       /\ Allowed(t, out.fault)
       /\ faults' = Count(t, out.fault)
       /\ io' = [io EXCEPT ![t].hit = @ \/ out.fault]
       /\ primary' = [primary EXCEPT ![Name(t)] = out.file]
       /\ bak' = [bak EXCEPT ![Name(t)] = primary[Name(t)]]
       /\ Finish(t, IF out.ok /\ data[t].kind = "list" THEN data[t] ELSE ListVal(<<>>), "none")
  /\ Goto(t, "exit")
  /\ UNCHANGED <<tmp, tsb, clock, locks, call, lock, data, pre, last, crashed, hist, job>>

\* (a reader that returns the backup without rewriting the primary)
ReadHealSkip(t) ==
  /\ pc[t] = "r_heal"
  /\ Finish(t, IF data[t].kind = "list" THEN data[t] ELSE ListVal(<<>>), "none")
  /\ Goto(t, "exit")
  /\ UNCHANGED <<files, clock, locks, call, lock, data, pre, io, faults, last, crashed, hist, job>>

ReadHeal(t) ==
  /\ pc[t] = "r_heal"
  /\ \E out \in WriteOutcomes(primary[Name(t)], Dumps(data[t])) :
       /\ Allowed(t, out.fault)
       /\ faults' = Count(t, out.fault)
       /\ io' = [io EXCEPT ![t].hit = @ \/ out.fault]
       /\ primary' = [primary EXCEPT ![Name(t)] = out.file]
       /\ Finish(t, IF out.ok /\ data[t].kind = "list" THEN data[t] ELSE ListVal(<<>>), "none")
  /\ Goto(t, "exit")
  /\ UNCHANGED <<bak, tmp, tsb, clock, locks, call, lock, data, pre, last, crashed, hist, job>>

\* -------------------------------------------------------- write_json_file
\* (a writer without the isinstance test)
WValidateNone(t) ==
  /\ pc[t] = "w_validate"
  /\ Goto(t, IF primary[Name(t)].ex THEN "w_bak" ELSE "w_tmp")
  /\ UNCHANGED <<files, clock, locks, call, lock, data, res, pre, io, faults, last, crashed, hist, job>>

\* (a writer that makes its backups whether the primary exists or not)
WValidateCopy(t) ==
  /\ pc[t] = "w_validate"
  /\ IF call[t].data.kind # "list"
     THEN Finish(t, NoneVal, "ValueError") /\ Goto(t, "exit")
     ELSE res' = res /\ Goto(t, "w_bak")
  /\ UNCHANGED <<files, clock, locks, call, lock, data, pre, io, faults, last, crashed, hist, job>>

WValidate(t) ==
  /\ pc[t] = "w_validate"
  /\ IF call[t].data.kind # "list"
     THEN Finish(t, NoneVal, "ValueError") /\ Goto(t, "exit")
     ELSE res' = res /\ Goto(t, IF primary[Name(t)].ex THEN "w_bak" ELSE "w_tmp")
  /\ UNCHANGED <<files, clock, locks, call, lock, data, pre, io, faults, last, crashed, hist, job>>

\* (a writer that saves the new records, not the old primary, as .bak)
WBackupNew(t) ==
  /\ pc[t] = "w_bak"
  /\ io' = [io EXCEPT ![t].bak = TRUE]
  /\ bak' = [bak EXCEPT ![Name(t)] = NewFile(t)]
  /\ Goto(t, "w_tsbak")
  /\ UNCHANGED <<primary, tmp, tsb, clock, locks, call, lock, data, res, pre, faults, last, crashed, hist, job>>

\* (a writer that skips the copy to .bak)
WBackupSkip(t) ==
  /\ pc[t] = "w_bak"
  /\ io' = [io EXCEPT ![t].bak = TRUE]
  /\ Goto(t, "w_tsbak")
  /\ UNCHANGED <<files, clock, locks, call, lock, data, res, pre, faults, last, crashed, hist, job>>

\* (a writer that lets a failed copy to .bak end the call)
WBackupRaise(t) ==
  /\ pc[t] = "w_bak"
  /\ \E out \in CopyOutcomes(primary[Name(t)], bak[Name(t)]) :
       /\ Allowed(t, out.fault)
       /\ faults' = Count(t, out.fault)
       /\ io' = [io EXCEPT ![t].hit = @ \/ out.fault, ![t].bak = out.ok]
       /\ bak' = [bak EXCEPT ![Name(t)] = out.file]
       /\ Goto(t, IF out.ok THEN "w_tsbak" ELSE "w_cleanup")
  /\ UNCHANGED <<primary, tmp, tsb, clock, locks, call, lock, data, res, pre, last, crashed, hist, job>>

WBackup(t) ==
  /\ pc[t] = "w_bak"
  /\ \E out \in CopyOutcomes(primary[Name(t)], bak[Name(t)]) :
       /\ Allowed(t, out.fault)
       /\ faults' = Count(t, out.fault)
       /\ io' = [io EXCEPT ![t].hit = @ \/ out.fault, ![t].bak = out.ok]
       /\ bak' = [bak EXCEPT ![Name(t)] = out.file]
  /\ Goto(t, "w_tsbak")
  /\ UNCHANGED <<primary, tmp, tsb, clock, locks, call, lock, data, res, pre, last, crashed, hist, job>>

\* (a writer that gives every timestamped backup the same name)
WTimestampedOne(t) ==
  /\ pc[t] = "w_tsbak"
  /\ \E out \in CopyOutcomes(primary[Name(t)], tsb[Name(t)][0]) :
       /\ Allowed(t, out.fault)
       /\ faults' = Count(t, out.fault)
       /\ io' = [io EXCEPT ![t].hit = @ \/ out.fault, ![t].ts = out.ok]
       /\ tsb' = [tsb EXCEPT ![Name(t)][0] = out.file]
  /\ Goto(t, "w_tmp")
  /\ UNCHANGED <<primary, bak, tmp, clock, locks, call, lock, data, res, pre, last, crashed, hist, job>>

\* _create_timestamped_backup names the file after the current second
WTimestamped(t) ==
  /\ pc[t] = "w_tsbak"
  /\ \E out \in CopyOutcomes(primary[Name(t)], tsb[Name(t)][clock]) :
       /\ Allowed(t, out.fault)
       /\ faults' = Count(t, out.fault)
       /\ io' = [io EXCEPT ![t].hit = @ \/ out.fault, ![t].ts = out.ok]
       /\ tsb' = [tsb EXCEPT ![Name(t)][clock] = out.file]
  /\ Goto(t, "w_tmp")
  /\ UNCHANGED <<primary, bak, tmp, clock, locks, call, lock, data, res, pre, last, crashed, hist, job>>

\* (a writer that dumps into the primary itself)
WTempInPlace(t) ==
  /\ pc[t] = "w_tmp"
  /\ \E out \in WriteOutcomes(primary[Name(t)], Dumps(call[t].data)) :
       /\ Allowed(t, out.fault)
       /\ faults' = Count(t, out.fault)
       /\ io' = [io EXCEPT ![t].hit = @ \/ out.fault, ![t].wr = ~out.ok]
       /\ primary' = [primary EXCEPT ![Name(t)] = out.file]
       /\ tmp' = [tmp EXCEPT ![Name(t)] = out.file]
       /\ Goto(t, IF out.ok THEN "w_replace" ELSE "w_cleanup")
  /\ UNCHANGED <<bak, tsb, clock, locks, call, lock, data, res, pre, last, crashed, hist, job>>

\* (a writer that opens the temp file for exclusive creation)
WTempExclusive(t) ==
  /\ pc[t] = "w_tmp"
  /\ IF tmp[Name(t)].ex
     THEN /\ io' = [io EXCEPT ![t].wr = TRUE]
          /\ tmp' = tmp
          /\ Goto(t, "w_cleanup")
     ELSE /\ io' = io
          /\ tmp' = [tmp EXCEPT ![Name(t)] = NewFile(t)]
          /\ Goto(t, "w_replace")
  /\ UNCHANGED <<primary, bak, tsb, clock, locks, call, lock, data, res, pre, faults, last, crashed, hist, job>>

WTemp(t) ==
  /\ pc[t] = "w_tmp"
  /\ \E out \in WriteOutcomes(tmp[Name(t)], Dumps(call[t].data)) :
       /\ Allowed(t, out.fault)
       /\ faults' = Count(t, out.fault)
       /\ io' = [io EXCEPT ![t].hit = @ \/ out.fault, ![t].wr = ~out.ok]
       /\ tmp' = [tmp EXCEPT ![Name(t)] = out.file]
       /\ Goto(t, IF out.ok THEN "w_replace" ELSE "w_cleanup")
  /\ UNCHANGED <<primary, bak, tsb, clock, locks, call, lock, data, res, pre, last, crashed, hist, job>>

\* what a successful rename leaves in the history of the collection
Replaced(t) ==
  [hist[Name(t)] EXCEPT
     !.old = IF hist[Name(t)].rec /\ pre[t].primary.ex THEN pre[t].primary ELSE @,
     !.left = "none"]

\* (a replace that copies the temp file over the primary: a failure leaves
\* the primary truncated)
WReplaceCopy(t) ==
  /\ pc[t] = "w_replace"
  /\ \/ /\ primary' = [primary EXCEPT ![Name(t)] = tmp[Name(t)]]
        /\ tmp' = [tmp EXCEPT ![Name(t)] = Absent]
        /\ Finish(t, NoneVal, "none")
        /\ Goto(t, "exit")
        /\ hist' = [hist EXCEPT ![Name(t)] = Replaced(t)]
        /\ UNCHANGED <<io, faults>>
     \/ /\ Allowed(t, TRUE)
        /\ faults' = Count(t, TRUE)
        /\ io' = [io EXCEPT ![t].hit = TRUE, ![t].wr = TRUE]
        /\ primary' = [primary EXCEPT ![Name(t)] = Text(<<>>)]
        /\ Goto(t, "w_cleanup")
        /\ UNCHANGED <<tmp, res, hist>>
  /\ UNCHANGED <<bak, tsb, clock, locks, call, lock, data, pre, last, crashed, job>>

\* temp_filepath.replace(filepath): the rename, or an OSError that changes nothing
WReplace(t) ==
  /\ pc[t] = "w_replace"
  /\ \/ /\ primary' = [primary EXCEPT ![Name(t)] = tmp[Name(t)]]
        /\ tmp' = [tmp EXCEPT ![Name(t)] = Absent]
        /\ Finish(t, NoneVal, "none")
        /\ Goto(t, "exit")
        /\ hist' = [hist EXCEPT ![Name(t)] = Replaced(t)]
        /\ UNCHANGED <<io, faults>>
     \/ /\ Allowed(t, TRUE)
        /\ faults' = Count(t, TRUE)
        /\ io' = [io EXCEPT ![t].hit = TRUE, ![t].wr = TRUE]
        /\ Goto(t, "w_cleanup")
        /\ UNCHANGED <<primary, tmp, res, hist>>
  /\ UNCHANGED <<bak, tsb, clock, locks, call, lock, data, pre, last, crashed, job>>

\* (a handler that raises without removing the temp file)
WCleanupKeep(t) ==
  /\ pc[t] = "w_cleanup"
  /\ Finish(t, NoneVal, "IOError")
  /\ Goto(t, "exit")
  /\ UNCHANGED <<files, clock, locks, call, lock, data, pre, io, faults, last, crashed, hist, job>>

\* except Exception: unlink the temp file if it exists (errors ignored); raise.
\* The unlink can fail for the reason the write failed: not counted again.
WCleanup(t) ==
  /\ pc[t] = "w_cleanup"
  /\ \/ /\ tmp' = [tmp EXCEPT ![Name(t)] = Absent]
        /\ hist' = [hist EXCEPT ![Name(t)].left = "none"]
        /\ io' = io
     \/ /\ tmp[Name(t)].ex /\ tmp' = tmp
        /\ hist' = [hist EXCEPT ![Name(t)].left = "unlink"]
        /\ io' = [io EXCEPT ![t].unl = TRUE]
  /\ faults' = faults
  /\ Finish(t, NoneVal, "IOError")
  /\ Goto(t, "exit")
  /\ UNCHANGED <<primary, bak, tsb, clock, locks, call, lock, data, pre, last, crashed, job>>

\* ---------------------------------------------------- restore_from_backup
SCheck(t) ==
  /\ pc[t] = "s_check"
  /\ LET f == bak[Name(t)]
         l == Load(f)
     IN  IF f.ex /\ l.err = "none"
         THEN /\ data' = [data EXCEPT ![t] = l.v]
              /\ res' = res
              /\ Goto(t, "s_write")
         ELSE /\ data' = data
              /\ Finish(t, FalseVal, "none")
              /\ Goto(t, "exit")
  /\ UNCHANGED <<files, clock, locks, call, lock, pre, io, faults, last, crashed, hist, job>>

\* (a restore that moves the backup onto the primary)
SWriteMove(t) ==
  /\ pc[t] = "s_write"
  /\ primary' = [primary EXCEPT ![Name(t)] = bak[Name(t)]]
  /\ bak' = [bak EXCEPT ![Name(t)] = Absent]
  /\ Finish(t, TrueVal, "none")
  /\ Goto(t, "exit")
  /\ UNCHANGED <<tmp, tsb, clock, locks, call, lock, data, pre, io, faults, last, crashed, hist, job>>

\* (a restore that reports success without writing)
SWriteNothing(t) ==
  /\ pc[t] = "s_write"
  /\ Finish(t, TrueVal, "none")
  /\ Goto(t, "exit")
  /\ UNCHANGED <<files, clock, locks, call, lock, data, pre, io, faults, last, crashed, hist, job>>

SWrite(t) ==
  /\ pc[t] = "s_write"
  /\ \E out \in WriteOutcomes(primary[Name(t)], Dumps(data[t])) :
       /\ Allowed(t, out.fault)
       /\ faults' = Count(t, out.fault)
       /\ io' = [io EXCEPT ![t].hit = @ \/ out.fault]
       /\ primary' = [primary EXCEPT ![Name(t)] = out.file]
       /\ Finish(t, BoolVal(out.ok), "none")
  /\ Goto(t, "exit")
  /\ UNCHANGED <<bak, tmp, tsb, clock, locks, call, lock, data, pre, last, crashed, hist, job>>

\* ------------------------------------------------------------ environment
Tick ==
  /\ clock + 1 \in Seconds
  /\ clock' = clock + 1
  /\ UNCHANGED <<files, locks, pc, call, lock, data, res, pre, io, faults, last, crashed, hist, job>>

InWrite == {"w_validate", "w_bak", "w_tsbak", "w_tmp", "w_replace", "w_cleanup"}
Writing(t) == call[t].op \in {"write", "ensure"}
\* inside the critical section of write_json_file
InWriteCall(t) == Writing(t) /\ pc[t] \in InWrite \cup {"exit"}

\* the process dies and is started again: threads, locks and the registry
\* are gone, the files stay as they are
Crash ==
  /\ \E t \in Threads : pc[t] # "idle"
  /\ faults < MaxFaults
  /\ faults' = faults + 1
  /\ crashed' = [c \in Names |->
       IF \E t \in Threads : Name(t) = c /\ InWriteCall(t)
       THEN LET t == CHOOSE u \in Threads : Name(u) = c /\ InWriteCall(u)
            IN  [at |-> pc[t], old |-> pre[t].primary, new |-> Dumps(call[t].data)]
       ELSE NoCrash]
  /\ pc' = [t \in Threads |-> "idle"]
  /\ call' = [t \in Threads |-> NoCall]
  /\ lock' = [t \in Threads |-> 0]
  /\ data' = [t \in Threads |-> NoneVal]
  /\ res' = [t \in Threads |-> NoRes]
  /\ pre' = [t \in Threads |-> NoPre]
  /\ io' = [t \in Threads |-> NoIo]
  /\ last' = [c \in Names |-> NoLast]
  /\ file_locks' = [c \in Names |-> 0]
  /\ locks_lock' = NoThread
  /\ owner' = [l \in LockIds |-> NoThread]
  /\ hist' = [c \in Names |->
       [hist[c] EXCEPT
          !.left = IF tmp[c].ex /\ \E t \in Threads : Name(t) = c /\ InWriteCall(t)
                   THEN "crash" ELSE @,
          !.st = "none", !.r1 = NoneVal, !.bk = FALSE]]
  /\ job' = [t \in Threads |-> NoJob]
  /\ UNCHANGED <<files, clock>>

\* the steps of a call under way
Run(t) ==
  \/ EnsureCheck(t)
  \/ GetLockEnter(t)
  \/ GetLockBody(t)
  \/ Acquire(t)
  \/ Exit(t)
  \/ ReadPrimary(t)
  \/ ReadBackup(t)
  \/ ReadHeal(t)
  \/ WValidate(t)
  \/ WBackup(t)
  \/ WTimestamped(t)
  \/ WTemp(t)
  \/ WReplace(t)
  \/ WCleanup(t)
  \/ SCheck(t)
  \/ SWrite(t)

Step(t) ==
  \/ \E c \in SeqNames : CallRead(t, c)
  \/ \E c \in SeqNames, d \in WriteArgs : CallWrite(t, c, d)
  \/ \E c \in SeqNames : CallRestore(t, c)
  \/ \E c \in SeqNames : CallEnsure(t, c)
  \/ Run(t)

Next == (\E t \in SeqThreads : Step(t)) \/ Tick \/ Crash

Spec == Init /\ [][Next]_vars

SpecPre == InitPre /\ [][Next]_vars

SpecUndo == InitUndo /\ [][Next]_vars

\* the process starts after a write died between open(temp_filepath, 'w')
\* and the rename: the temp file holds nothing yet or a part of a dump
StaleTemps == {Text(<<>>), Text(<<"[", "a">>)}

InitStale ==
  /\ \E p \in [SeqNames -> InitFiles] :
       primary = [c \in Names |-> IF c \in SeqNames THEN p[c] ELSE Absent]
  /\ \E b \in [SeqNames -> InitFiles] :
       bak = [c \in Names |-> IF c \in SeqNames THEN b[c] ELSE Absent]
  /\ \E f \in [SeqNames -> StaleTemps] :
       tmp = [c \in Names |-> IF c \in SeqNames THEN f[c] ELSE Absent]
  /\ faults = 0
  /\ hist = [c \in Names |->
       IF c \in SeqNames THEN [NoHist EXCEPT !.left = "crash"] ELSE NoHist]
  /\ Fresh

SpecStale == InitStale /\ [][Next]_vars

\* ------------------------------------------------------- concurrent runs
\* Two threads (the web server runs handlers in a thread pool) call the store
\* on two collections. Each collection starts with a truncated primary, a
\* rolling backup that holds one record and a stale temp file, left by a
\* process that crashed, that cannot be opened, so that writes fail until its
\* unlink succeeds. The environment brings no other I/O failure in these
\* runs: its budget is used up.
ConcArgs == {ListVal(<<"a">>), DictVal}

ConcInit ==
  /\ primary = [c \in Names |-> Text(<<"[">>)]
  /\ bak = [c \in Names |-> Text(<<"[", "ws", "a", "]">>)]
  /\ tmp = [c \in Names |-> Unreadable]
  /\ faults = MaxFaults
  /\ hist = [c \in Names |-> [NoHist EXCEPT !.left = "crash"]]
  /\ Fresh

ConcStep(t) ==
  \/ \E c \in Names : CallRead(t, c)
  \/ \E c \in Names, d \in ConcArgs : CallWrite(t, c, d)
  \/ \E c \in Names : CallRestore(t, c)
  \/ \E c \in Names : CallEnsure(t, c)
  \/ Run(t)

ConcNext == \E t \in Threads : ConcStep(t)

SpecConc == ConcInit /\ [][ConcNext]_vars

\* The same threads while one collection is brand new: nothing of it exists
\* yet, the other collection is as above.
BootInit ==
  /\ primary = [c \in Names |-> IF c \in SeqNames THEN Absent ELSE Text(<<"[">>)]
  /\ bak = [c \in Names |-> IF c \in SeqNames THEN Absent ELSE Text(<<"[", "ws", "a", "]">>)]
  /\ tmp = [c \in Names |-> IF c \in SeqNames THEN Absent ELSE Unreadable]
  /\ faults = MaxFaults
  /\ hist = [c \in Names |->
               IF c \in SeqNames THEN NoHist ELSE [NoHist EXCEPT !.left = "crash"]]
  /\ Fresh

SpecBoot == BootInit /\ [][ConcNext]_vars

\* Fair scheduling: a thread that can take a step of its call takes one (the
\* file I/O of a step ends), and a thread that waits for a lock that is
\* released again and again gets it.
Fair ==
  \A t \in Threads :
    /\ WF_vars(Run(t))
    /\ SF_vars(Acquire(t))
    /\ SF_vars(GetLockEnter(t))

\* the fair runs: both threads make every call on one collection, and read
\* and restore the other as well
FairStep(t) ==
  \/ \E c \in Names : CallRead(t, c)
  \/ \E c \in SeqNames, d \in ConcArgs : CallWrite(t, c, d)
  \/ \E c \in Names : CallRestore(t, c)
  \/ \E c \in SeqNames : CallEnsure(t, c)
  \/ Run(t)

FairNext == \E t \in Threads : FairStep(t)

SpecFair == ConcInit /\ [][FairNext]_vars /\ Fair

\* ------------------------------------------------- crud.create_student
\* the collection that stands for students.json
Students == "A"

\* the records other create_student calls are adding or have added: uuid4
\* gives every new student an id of its own
Taken == {job[t].new : t \in Threads}

\* students = get_all_students(), which is db.read_json_file('students.json')
CreateStudentRead(t, r) ==
  /\ pc[t] = "idle"
  /\ job[t].st = "none"
  /\ r \notin Taken
  /\ job' = [job EXCEPT ![t] = [NoJob EXCEPT !.st = "read", !.new = r]]
  /\ call' = [call EXCEPT ![t] = [op |-> "read", fname |-> Students, data |-> NoneVal]]
  /\ Goto(t, "getlock")
  /\ UNCHANGED <<files, clock, locks, lock, data, res, pre, io, faults, last, crashed, hist>>

\* students.append(new_student); db.write_json_file('students.json', students)
CreateStudentWrite(t) ==
  /\ pc[t] = "idle"
  /\ job[t].st = "got"
  /\ job' = [job EXCEPT ![t].st = "write"]
  /\ call' = [call EXCEPT ![t] =
       [op |-> "write", fname |-> Students,
        data |-> ListVal(Append(job[t].students.val, job[t].new))]]
  /\ Goto(t, "getlock")
  /\ UNCHANGED <<files, clock, locks, lock, data, res, pre, io, faults, last, crashed, hist>>

\* students.json is absent or holds an empty or a one-record array written
\* by the application; no I/O failure happens
CrudInit ==
  /\ primary \in {[c \in Names |-> IF c = Students THEN f ELSE Absent] :
                    f \in {Absent, Text(Dumps(ListVal(<<>>)))}}
  /\ bak = [c \in Names |-> Absent]
  /\ tmp = [c \in Names |-> Absent]
  /\ faults = MaxFaults
  /\ hist = [c \in Names |-> NoHist]
  /\ Fresh

CrudStep(t) ==
  \/ \E r \in Records : CreateStudentRead(t, r)
  \/ CreateStudentWrite(t)
  \/ GetLockEnter(t)
  \/ GetLockBody(t)
  \/ Acquire(t)
  \/ ReadPrimary(t)
  \/ WValidate(t)
  \/ WBackup(t)
  \/ WTimestamped(t)
  \/ WTemp(t)
  \/ WReplace(t)
  \/ Exit(t)

CrudNext == (\E t \in Threads : CrudStep(t)) \/ Tick

SpecCrud == CrudInit /\ [][CrudNext]_vars

\* ---------------------------- crud.create_enrollment, delete_enrollment
\* the collection that stands for enrollments.json
Enrollments == "B"

\* all_enrollments = get_all_enrollments(); the id of the new enrollment is
\* a uuid4 no other enrollment has or had
CreateEnrollmentRead(t, r) ==
  /\ pc[t] = "idle"
  /\ job[t].st = "none"
  /\ job[t].new = "none"
  /\ r \notin Taken
  /\ job' = [job EXCEPT ![t] = [NoJob EXCEPT !.st = "e_read", !.new = r]]
  /\ call' = [call EXCEPT ![t] = [op |-> "read", fname |-> Enrollments, data |-> NoneVal]]
  /\ Goto(t, "getlock")
  /\ UNCHANGED <<files, clock, locks, lock, data, res, pre, io, faults, last, crashed, hist>>

\* if is_student_enrolled(student_id, class_id): reads enrollments.json again
CreateEnrollmentCheck(t) ==
  /\ pc[t] = "idle"
  /\ job[t].st = "e_got"
  /\ job' = [job EXCEPT ![t].st = "e_check"]
  /\ call' = [call EXCEPT ![t] = [op |-> "read", fname |-> Enrollments, data |-> NoneVal]]
  /\ Goto(t, "getlock")
  /\ UNCHANGED <<files, clock, locks, lock, data, res, pre, io, faults, last, crashed, hist>>

\* all_enrollments.append(new_enrollment);
\* db.write_json_file('enrollments.json', all_enrollments)
CreateEnrollmentWrite(t) ==
  /\ pc[t] = "idle"
  /\ job[t].st = "e_ok"
  /\ job' = [job EXCEPT ![t].st = "e_write"]
  /\ call' = [call EXCEPT ![t] =
       [op |-> "write", fname |-> Enrollments,
        data |-> ListVal(Append(job[t].students.val, job[t].new))]]
  /\ Goto(t, "getlock")
  /\ UNCHANGED <<files, clock, locks, lock, data, res, pre, io, faults, last, crashed, hist>>

\* delete_enrollment: all_enrollments = get_all_enrollments()
DeleteEnrollmentRead(t, r) ==
  /\ pc[t] = "idle"
  /\ job[t].st = "none"
  /\ job' = [job EXCEPT ![t].st = "d_read", ![t].del = r]
  /\ call' = [call EXCEPT ![t] = [op |-> "read", fname |-> Enrollments, data |-> NoneVal]]
  /\ Goto(t, "getlock")
  /\ UNCHANGED <<files, clock, locks, lock, data, res, pre, io, faults, last, crashed, hist>>

\* the list without the enrollments of the given id
Without(s, r) == SelectSeq(s, LAMBDA x : x # r)

\* delete_enrollment: the filtered list is written when it is shorter,
\* else the call returns False without writing
DeleteEnrollmentWrite(t) ==
  /\ pc[t] = "idle"
  /\ job[t].st = "d_got"
  /\ LET kept == Without(job[t].students.val, job[t].del)
     IN  IF Len(kept) < Len(job[t].students.val)
         THEN /\ job' = [job EXCEPT ![t].st = "d_write"]
              /\ call' = [call EXCEPT ![t] =
                   [op |-> "write", fname |-> Enrollments, data |-> ListVal(kept)]]
              /\ Goto(t, "getlock")
         ELSE /\ job' = [job EXCEPT ![t].st = "none", ![t].students = NoneVal,
                                     ![t].del = "none"]
              /\ UNCHANGED <<pc, call>>
  /\ UNCHANGED <<files, clock, locks, lock, data, res, pre, io, faults, last, crashed, hist>>

\* enrollments.json is absent or holds an empty array; no I/O failure happens
EnrollInit ==
  /\ primary \in {[c \in Names |-> IF c = Enrollments THEN f ELSE Absent] :
                    f \in {Absent, Text(Dumps(ListVal(<<>>)))}}
  /\ bak = [c \in Names |-> Absent]
  /\ tmp = [c \in Names |-> Absent]
  /\ faults = MaxFaults
  /\ hist = [c \in Names |-> NoHist]
  /\ Fresh

EnrollStep(t) ==
  \/ \E r \in Records : CreateEnrollmentRead(t, r)
  \/ CreateEnrollmentCheck(t)
  \/ CreateEnrollmentWrite(t)
  \/ \E r \in Records : DeleteEnrollmentRead(t, r)
  \/ DeleteEnrollmentWrite(t)
  \/ GetLockEnter(t)
  \/ GetLockBody(t)
  \/ Acquire(t)
  \/ ReadPrimary(t)
  \/ WValidate(t)
  \/ WBackup(t)
  \/ WTimestamped(t)
  \/ WTemp(t)
  \/ WReplace(t)
  \/ Exit(t)

\* the calls of one thread, one after the other
EnrollSeqNext == \E t \in SeqThreads : EnrollStep(t)

SpecEnrollSeq == EnrollInit /\ [][EnrollSeqNext]_vars

EnrollNext == \E t \in Threads : EnrollStep(t)

SpecEnroll == EnrollInit /\ [][EnrollNext]_vars

\* ----------------------------------------------------------------- claims
AtExit(t, o) == pc[t] = "exit" /\ call[t].op = o
Parsed(f, v) == f.ex /\ Load(f) = [err |-> "none", v |-> v]

\* C1: a read that follows a successful write_json_file(name, R), with no
\* other call on the collection in between, returns R: the same records in
\* the same order, and no error.
RoundTrip ==
  \A t \in Threads :
    AtExit(t, "read") /\ last[Name(t)].op = "write"
      => res[t] = [ret |-> last[Name(t)].data, exc |-> "none"]

RoundTripWitness ==
  \E t \in Threads :
    /\ AtExit(t, "read") /\ last[Name(t)].op = "write"
    /\ res[t].ret = ListVal(<<"b", "a">>)

\* C2: a write_json_file call given a list either replaces the primary by
\* the new records and returns, or raises the I/O error with the primary
\* exactly as it was when the call began.
FailedWriteKeepsPrimary ==
  \A t \in Threads :
    pc[t] = "exit" /\ Writing(t) /\ call[t].data.kind = "list"
      => IF res[t].exc = "none"
         THEN primary[Name(t)] = NewFile(t)
         ELSE res[t].exc = "IOError" /\ primary[Name(t)] = pre[t].primary

FailedWriteWitness ==
  \E t \in Threads :
    /\ pc[t] = "exit" /\ Writing(t) /\ res[t].exc = "IOError"
    /\ pre[t].primary.ex /\ pre[t].primary # NewFile(t)
    /\ primary[Name(t)] = pre[t].primary

\* C3: at every step of a write_json_file call the primary holds its content
\* from before the call until the rename, and the old or the new content
\* after it; the same holds of the file a crash leaves behind, and a crash
\* between the temp file's write and the rename leaves the old content.
AtomicReplace ==
  /\ \A t \in Threads :
       InWriteCall(t) =>
         /\ primary[Name(t)] \in {pre[t].primary, NewFile(t)}
         /\ pc[t] \in InWrite => primary[Name(t)] = pre[t].primary
         /\ pc[t] = "w_replace" => tmp[Name(t)] = NewFile(t)
  /\ \A c \in Names :
       crashed[c].at # "none" =>
         /\ primary[c] \in {crashed[c].old, Text(crashed[c].new)}
         /\ crashed[c].at \in InWrite => primary[c] = crashed[c].old

AtomicReplaceWitness ==
  \E c \in Names :
    /\ crashed[c].at = "w_replace"
    /\ crashed[c].old.ex /\ crashed[c].old.txt # crashed[c].new
    /\ primary[c] = crashed[c].old
    /\ tmp[c] = Text(crashed[c].new)

\* C4 as claimed: after a successful write of R1 and then a successful write
\* of R2, the primary holds R2, the .bak holds R1 and some timestamped backup
\* holds R1.
BackupHolds(t) ==
  /\ primary[Name(t)] = NewFile(t)
  /\ Parsed(bak[Name(t)], last[Name(t)].data)
  /\ \E s \in Seconds : Parsed(tsb[Name(t)][s], last[Name(t)].data)

SecondWrite(t) ==
  /\ AtExit(t, "write") /\ res[t].exc = "none" /\ call[t].data.kind = "list"
  /\ last[Name(t)].op = "write"

ReadNeverFails ==
  \A t \in Threads :
    AtExit(t, "read") => res[t].exc = "none" /\ res[t].ret.kind = "list"

\* C6 as claimed: when the primary holds invalid JSON and the rolling backup
\* a valid array B, read_json_file returns B and the primary then holds B.
HealCase(t) ==
  /\ AtExit(t, "read")
  /\ pre[t].primary.ex /\ Load(pre[t].primary).err = "JSONDecodeError"
  /\ pre[t].bak.ex /\ Load(pre[t].bak).err = "none" /\ Load(pre[t].bak).v.kind = "list"

Healed(t) ==
  /\ res[t] = [ret |-> Load(pre[t].bak).v, exc |-> "none"]
  /\ Parsed(primary[Name(t)], Load(pre[t].bak).v)

NoBackupCase(t) ==
  /\ AtExit(t, "read")
  /\ pre[t].primary.ex /\ Load(pre[t].primary).err = "JSONDecodeError"
  /\ ~pre[t].bak.ex \/ Load(pre[t].bak).err # "none"

MissingEverything ==
  \A t \in Threads :
    NoBackupCase(t) => res[t] = [ret |-> ListVal(<<>>), exc |-> "none"]

MissingEverythingWitness ==
  \E t \in Threads :
    NoBackupCase(t) /\ pre[t].bak.ex /\ Load(pre[t].bak).err = "JSONDecodeError"

\* C8: write_json_file given a value that is not a list raises ValueError
\* and leaves the primary, the .bak, the timestamped backups and the temp
\* file as they were.
RejectedInput ==
  \A t \in Threads :
    AtExit(t, "write") /\ call[t].data.kind # "list"
      => res[t].exc = "ValueError" /\ Snapshot(Name(t)) = pre[t]

RejectedInputWitness ==
  \E t \in Threads :
    /\ AtExit(t, "write") /\ call[t].data = DictVal
    /\ res[t].exc = "ValueError" /\ primary[Name(t)].ex

\* C9 as claimed: when the rolling backup exists and parses as JSON,
\* restore_from_backup returns True and the primary then holds what the
\* backup holds.
RestoreCase(t) ==
  AtExit(t, "restore") /\ pre[t].bak.ex /\ Load(pre[t].bak).err = "none"

Restored(t) ==
  /\ res[t] = [ret |-> TrueVal, exc |-> "none"]
  /\ Parsed(primary[Name(t)], Load(bak[Name(t)]).v)

FailedRestoreNoOp ==
  \A t \in Threads :
    AtExit(t, "restore") =>
      /\ res[t].exc = "none"
      /\ res[t].ret = FalseVal => primary[Name(t)] = pre[t].primary

\* between the entry and the exit of `with lock:`
InCritical(t) ==
  pc[t] \in {"r_load", "r_bak", "r_heal", "s_check", "s_write", "exit"} \cup InWrite

\* C11: at most one call of read_json_file, write_json_file or
\* restore_from_backup is inside its critical section for a collection, and
\* while a call is inside, no step of another thread changes a file of that
\* collection.
OneInside ==
  \A t, u \in Threads :
    t # u /\ InCritical(t) /\ InCritical(u) => Name(t) # Name(u)

OthersKeepOff ==
  \A t \in Threads :
    InCritical(t) /\ pc'[t] = pc[t] => Snapshot(Name(t))' = Snapshot(Name(t))

MutualExclusion == []OneInside /\ [][OthersKeepOff]_vars

MutualExclusionWitness ==
  \E t, u \in Threads :
    /\ t # u /\ Name(t) = Name(u)
    /\ pc[t] = "w_replace" /\ owner[lock[t]] = t
    /\ pc[u] = "acquire" /\ lock[u] = lock[t]

\* C12: every thread that took a lock from _get_lock holds the lock the
\* registry has for its file, so two threads on one file hold the same lock,
\* and an entry of the registry, once made, is never replaced or removed.
SameLock ==
  \A t \in Threads :
    pc[t] = "acquire" \/ InCritical(t)
      => lock[t] # 0 /\ lock[t] = file_locks[Name(t)]

EntryKept == \A c \in Names : file_locks[c] # 0 => file_locks'[c] = file_locks[c]

LockIdentity == []SameLock /\ [][EntryKept]_vars

LockIdentityWitness ==
  \E t, u \in Threads :
    /\ t # u /\ Name(t) = Name(u)
    /\ pc[t] = "acquire" /\ pc[u] = "acquire"
    /\ lock[t] = lock[u] /\ lock[t] # 0 /\ owner[lock[t]] = NoThread

\* C13: a thread that works on one collection never waits for a thread that
\* works on another: the lock it asks for is held, if at all, by a thread on
\* its own collection, the registry lock is held only for the body of
\* _get_lock, and inside its critical section it can always take its next
\* step.
Independence ==
  \A t \in Threads :
    /\ pc[t] = "acquire" /\ owner[lock[t]] # NoThread
         => Name(owner[lock[t]]) = Name(t)
    /\ pc[t] = "getlock" /\ locks_lock # NoThread
         => pc[locks_lock] = "getlock_in"
    /\ pc[t] = "getlock_in" \/ InCritical(t) => ENABLED Run(t)

IndependenceWitness ==
  \E t, u \in Threads :
    /\ pc[t] = "w_tmp" /\ owner[lock[t]] = t /\ Name(t) = "A"
    /\ pc[u] = "exit" /\ owner[lock[u]] = u /\ Name(u) = "B"
    /\ res[u].exc = "none"

\* C14: when a copy to the rolling backup or to the timestamped backup fails
\* in a write_json_file call given a list, and neither the temp file's write
\* nor the rename fails, the call returns normally and the primary holds the
\* new records.
CopyFailed(t) ==
  /\ pc[t] = "exit" /\ Writing(t) /\ call[t].data.kind = "list"
  /\ pre[t].primary.ex
  /\ ~io[t].bak \/ ~io[t].ts

BestEffortBackup ==
  \A t \in Threads :
    CopyFailed(t) /\ ~io[t].wr
      => res[t] = [ret |-> NoneVal, exc |-> "none"] /\ primary[Name(t)] = NewFile(t)

BestEffortBackupWitness ==
  \E t \in Threads :
    /\ CopyFailed(t) /\ ~io[t].wr /\ io[t].hit /\ ~io[t].bak
    /\ primary[Name(t)] = NewFile(t) /\ pre[t].primary # NewFile(t)

\* no call on collection c is under way
Quiet(c) == \A t \in Threads : pc[t] = "idle" \/ Name(t) # c

\* C15: between calls, once a write over an existing primary has succeeded,
\* the rolling backup holds the primary as it was just before the most
\* recent successful write.
RollingPreImage ==
  \A c \in Names : Quiet(c) /\ hist[c].old.ex => bak[c] = hist[c].old

\* C16 as claimed: ensure_file_exists called with no primary leaves a primary
\* that holds the empty array and reads back as the empty list; called with
\* a primary, it returns without changing any file.
Bootstrapped(t) ==
  /\ res[t] = [ret |-> NoneVal, exc |-> "none"]
  /\ primary[Name(t)] = Text(<<"[", "]">>)
  /\ Parsed(primary[Name(t)], ListVal(<<>>))

ExistingKept ==
  \A t \in Threads :
    pc[t] = "ensure" /\ primary[Name(t)].ex /\ pc'[t] # pc[t]
      => pc'[t] = "idle" /\ files' = files

NonArrayCase(t) ==
  /\ AtExit(t, "read")
  /\ pre[t].primary.ex /\ Load(pre[t].primary).err = "none"
  /\ Load(pre[t].primary).v.kind # "list"
  /\ pre[t].bak.ex /\ Load(pre[t].bak).err = "none" /\ Load(pre[t].bak).v.kind = "list"

NonArrayRecovers == \A t \in Threads : NonArrayCase(t) => Healed(t)

\* C18 as claimed: a successful write_json_file to a collection whose
\* primary was absent leaves the primary, a rolling backup and a timestamped
\* backup.
FirstWrite(t) ==
  /\ pc[t] = "exit" /\ Writing(t) /\ call[t].data.kind = "list"
  /\ res[t].exc = "none" /\ ~pre[t].primary.ex

FirstWriteBackupsClaimed ==
  \A t \in Threads :
    FirstWrite(t) =>
      /\ primary[Name(t)] = NewFile(t)
      /\ bak[Name(t)].ex
      /\ \E s \in Seconds : tsb[Name(t)][s].ex

\* C18 amended: such a write creates the primary only; the rolling backup
\* and the timestamped backups stay as they were.
FirstWriteCreates ==
  \A t \in Threads :
    FirstWrite(t) =>
      /\ primary[Name(t)] = NewFile(t)
      /\ bak[Name(t)] = pre[t].bak
      /\ tsb[Name(t)] = pre[t].tsb

FirstWriteWitness ==
  \E t \in Threads :
    /\ FirstWrite(t) /\ call[t].op = "write" /\ call[t].data = ListVal(<<"a", "b">>)
    /\ ~bak[Name(t)].ex /\ \A s \in Seconds : ~tsb[Name(t)][s].ex

\* C19 as claimed: whenever no write_json_file call on a collection is under
\* way, its temp file does not exist.
NoWrite(c) == \A t \in Threads : ~(Writing(t) /\ Name(t) = c)

TempGoneClaimed == \A c \in Names : NoWrite(c) => ~tmp[c].ex

\* C19 amended: the same, unless the unlink of a failed write failed too or
\* the process died during a write; and a write call that ends leaves no
\* temp file unless its unlink failed.
TempTransient ==
  /\ \A c \in Names : NoWrite(c) /\ hist[c].left = "none" => ~tmp[c].ex
  /\ \A t \in Threads :
       pc[t] = "exit" /\ Writing(t) /\ call[t].data.kind = "list" /\ ~io[t].unl
         => ~tmp[Name(t)].ex

TempTransientWitness ==
  \E t \in Threads :
    /\ pc[t] = "exit" /\ Writing(t) /\ res[t].exc = "IOError"
    /\ io[t].wr /\ ~io[t].unl /\ ~tmp[Name(t)].ex

\* C20 as claimed: no step changes a timestamped backup that exists.
SnapshotsImmutable ==
  \A c \in Names, s \in Seconds : tsb[c][s].ex => tsb'[c][s] = tsb[c][s]

TimestampedImmutableClaimed == [][SnapshotsImmutable]_vars

\* C20 amended: a timestamped backup is changed only by the timestamped copy
\* of a write_json_file call made in the second it is named after: no read,
\* restore or later-second write changes it.
SnapshotsKept ==
  \A c \in Names, s \in Seconds :
    tsb[c][s].ex /\ tsb'[c][s] # tsb[c][s]
      => s = clock /\ \E t \in Threads : pc[t] = "w_tsbak" /\ Name(t) = c

TimestampedKept == [][SnapshotsKept]_vars

TimestampedKeptWitness ==
  \E c \in Names :
    /\ clock = 1 /\ tsb[c][0].ex /\ tsb[c][1].ex
    /\ tsb[c][0] # tsb[c][1]
    /\ \E t \in Threads : pc[t] = "exit" /\ Name(t) = c /\ io[t].ts

\* C21: _locks_lock is held only inside the body of _get_lock: a thread that
\* tests a file's existence, waits for a file lock or is inside a critical
\* section does not hold it, and a thread outside the store does not either.
RegistryLockBrief ==
  /\ locks_lock # NoThread => pc[locks_lock] = "getlock_in"
  /\ \A t \in Threads :
       pc[t] \in {"idle", "ensure", "getlock", "acquire"} \/ InCritical(t)
         => locks_lock # t

RegistryLockBriefWitness ==
  \E t, u \in Threads :
    /\ pc[t] = "w_tmp" /\ owner[lock[t]] = t
    /\ pc[u] = "getlock_in" /\ locks_lock = u /\ Name(u) = Name(t)

\* C22: read_json_file and restore_from_backup end with the rolling backup
\* and every timestamped backup as they found them, and a step changes a
\* backup file only if it is a backup copy of a write_json_file call.
BackupsAsFound ==
  \A t \in Threads :
    pc[t] = "exit" /\ call[t].op \in {"read", "restore"}
      => bak[Name(t)] = pre[t].bak /\ tsb[Name(t)] = pre[t].tsb

OnlyWriteBacksUp ==
  \A c \in Names :
    bak'[c] # bak[c] \/ tsb'[c] # tsb[c]
      => \E t \in Threads :
           call[t].op = "write" /\ Name(t) = c /\ pc[t] \in {"w_bak", "w_tsbak"}

BackupsFrame == []BackupsAsFound /\ [][OnlyWriteBacksUp]_vars

BackupsFrameWitness ==
  \E t \in Threads :
    /\ AtExit(t, "read") /\ primary[Name(t)] # pre[t].primary
    /\ Parsed(primary[Name(t)], ListVal(<<"a">>))
    /\ bak[Name(t)] = pre[t].bak /\ bak[Name(t)].ex

\* C23: a read_json_file call that finds no primary returns the empty list
\* and creates none; one that finds a primary holding an array returns that
\* array and leaves the primary as it is; and a read changes the primary only
\* if the primary existed, did not load, and the rolling backup loaded.
ReadFrame ==
  \A t \in Threads :
    AtExit(t, "read") =>
      /\ ~pre[t].primary.ex
           => /\ res[t] = [ret |-> ListVal(<<>>), exc |-> "none"]
              /\ primary[Name(t)] = pre[t].primary
      /\ Load(pre[t].primary).err = "none" /\ Load(pre[t].primary).v.kind = "list"
         /\ pre[t].primary.ex
           => /\ res[t] = [ret |-> Load(pre[t].primary).v, exc |-> "none"]
              /\ primary[Name(t)] = pre[t].primary
      /\ primary[Name(t)] # pre[t].primary
           => /\ pre[t].primary.ex /\ Load(pre[t].primary).err # "none"
              /\ pre[t].bak.ex /\ Load(pre[t].bak).err = "none"

ReadFrameWitness ==
  \E t \in Threads :
    /\ AtExit(t, "read") /\ pre[t].primary = Text(<<"[", "ws", "a", "]">>)
    /\ res[t].ret = ListVal(<<"a">>) /\ primary[Name(t)] = pre[t].primary
    /\ pre[t].bak.ex /\ Load(pre[t].bak).err = "none"

\* C24: a thread outside a critical section holds no file lock (every exit
\* path has released it, and none is held while another is asked for); while
\* a call is under way some thread can take a step; and under fair
\* scheduling every call that has begun ends.
LocksReleased ==
  \A t \in Threads :
    ~InCritical(t) => \A l \in LockIds : owner[l] # t

NoDeadlock ==
  (\E t \in Threads : pc[t] # "idle") => \E t \in Threads : ENABLED Run(t)

Completes == \A t \in Threads : (pc[t] # "idle") ~> (pc[t] = "idle")

EnsureOnlyCreates ==
  \A t \in Threads :
    AtExit(t, "ensure") /\ res[t].exc = "none" => ~pre[t].primary.ex

\* the file exists and loads as a JSON array
IsArray(f) == f.ex /\ Load(f).err = "none" /\ Load(f).v.kind = "list"

\* C26: when the rolling backup loads as a JSON array at the time a call
\* takes the lock, it still loads as a JSON array when the call ends.
GoodBackupKept ==
  \A t \in Threads :
    pc[t] = "exit" /\ IsArray(pre[t].bak) => IsArray(bak[Name(t)])

\* C27: when a read_json_file or a restore_from_backup call ends, whatever
\* its rewrite of the primary met, the primary is as the call found it or
\* holds the whole of what the rolling backup held.
NoPartialRewrite ==
  \A t \in Threads :
    pc[t] = "exit" /\ call[t].op \in {"read", "restore"} =>
      \/ primary[Name(t)] = pre[t].primary
      \/ /\ pre[t].bak.ex /\ Load(pre[t].bak).err = "none"
         /\ primary[Name(t)] = Text(Dumps(Load(pre[t].bak).v))

\* C28: whenever a read_json_file call has changed the primary, the primary
\* holds a JSON array, and the call returns that array.
HealInstallsReturn ==
  \A t \in Threads :
    AtExit(t, "read") /\ primary[Name(t)] # pre[t].primary
      => /\ res[t].exc = "none" /\ res[t].ret.kind = "list"
         /\ Parsed(primary[Name(t)], res[t].ret)

\* C29 as claimed: after two successful writes in a row, of R1 and then of
\* R2, restore_from_backup returns True and leaves R1 in the primary; a read
\* that follows returns R1; a second restore leaves the primary and the
\* rolling backup as they are.
UndoRestores(t) ==
  AtExit(t, "restore") /\ hist[Name(t)].st = "ww"
    => res[t].ret = TrueVal /\ Parsed(primary[Name(t)], hist[Name(t)].r1)

UndoReads(t) ==
  AtExit(t, "read") /\ hist[Name(t)].st = "wwr"
    => res[t] = [ret |-> hist[Name(t)].r1, exc |-> "none"]

UndoAgain(t) ==
  AtExit(t, "restore") /\ hist[Name(t)].st = "wwr"
    => /\ primary[Name(t)] = pre[t].primary
       /\ bak[Name(t)] = pre[t].bak

NoLostUpdate ==
  (\A t \in Threads : job[t].st = "done")
    => LET l == Load(primary[Students])
       IN  /\ l.err = "none" /\ l.v.kind = "list"
           /\ \A t \in Threads : \E i \in 1..Len(l.v.val) : l.v.val[i] = job[t].new

\* C31: once a primary file, a rolling backup or a timestamped backup exists,
\* no step of a read, write, restore or ensure call (nor a process crash)
\* removes it; the set of timestamped backups only grows.
StaysPut(c) ==
  /\ primary[c].ex => primary'[c].ex
  /\ bak[c].ex => bak'[c].ex
  /\ \A s \in Seconds : tsb[c][s].ex => tsb'[c][s].ex

ExistenceMonotonic == [][\A c \in Names : StaysPut(c)]_vars

\* a failed write and a restore have run over files that all exist, and they
\* are all still there
ExistenceMonotonicWitness ==
  \E t \in Threads :
    /\ pc[t] = "exit" /\ call[t].op \in {"write", "restore"} /\ io[t].hit
    /\ pre[t].primary.ex /\ pre[t].bak.ex
    /\ \E s \in Seconds : pre[t].tsb[s].ex
    /\ primary[Name(t)].ex /\ bak[Name(t)].ex
    /\ \E s \in Seconds : tsb[Name(t)][s].ex

\* C32 as claimed: the write_json_file call that finds the temp file an
\* interrupted write left succeeds, the primary then holds the new records
\* and the temp file is gone.
StaleCase(t) ==
  /\ AtExit(t, "write") /\ call[t].data.kind = "list"
  /\ pre[t].tmp.ex

StaleOvercome(t) ==
  /\ res[t].exc = "none"
  /\ primary[Name(t)] = NewFile(t)
  /\ ~tmp[Name(t)].ex

EnrollmentUnique ==
  LET l == Load(primary[Enrollments])
  IN  primary[Enrollments].ex /\ l.err = "none" /\ l.v.kind = "list"
        => \A i, j \in 1..Len(l.v.val) :
             PairOf(l.v.val[i]) = PairOf(l.v.val[j]) => i = j

====
